---- MODULE Spec2Model ----
(***************************************************************************)
(* The aussie-byte blog server: the authentication routes of               *)
(* routes/auth.js, the session middleware and the access guard of          *)
(* index.js, and the post routes the guard does or does not protect.       *)
(*                                                                         *)
(* reqs is the bag of the requests the server holds.  A request runs its   *)
(* synchronous part when it arrives and then one step per callback         *)
(* (bcrypt.hash, db.run, db.get, bcrypt.compare, session.destroy), so that *)
(* requests interleave exactly where the Node event loop lets them.        *)
(*                                                                         *)
(* Beside the server stand the two autopush tools of scripts/: the file    *)
(* watcher autopush-watcher.js with its debounce timer, and the script     *)
(* autopush.ps1 it starts, which sets the origin remote, stages, commits   *)
(* and pushes.                                                             *)
(***************************************************************************)
EXTENDS Naturals, FiniteSets, Sequences, Bags

\* ----- bounds of the model -----
MaxReq == 2          \* requests the server holds at a time
MaxSid == 1          \* sessions the store is ever given
MaxPost == 1         \* rows the posts table is ever given

\* ----- values of the form fields -----
Missing == "<undefined>"            \* a field absent from req.body
Usernames == {"alice", ""}
Passwords == {"secret123", "", Missing}
Salts == {1, 2}                     \* the salts bcrypt draws from

NoSid == 0           \* a session that is in no store and on no cookie
NoUser == 0          \* req.session.userId not set
Gone == 99           \* req.session deleted by session.destroy
saltRounds == 10
NoHash == [cost |-> 0, salt |-> 0, pw |-> ""]
NoRow == [id |-> 0, username |-> "", password |-> NoHash]
InvalidMsg == "Invalid username or password"

VARIABLES
    users,       \* the users table: a sequence of rows, row i has id i
    posts,       \* the ids of the rows of the posts table
    nextPostId,  \* AUTOINCREMENT of posts
    sessions,    \* the session store: sid -> [userId]
    nextSid,     \* the next session id the middleware generates
    reqs         \* the bag of requests: those in flight and those answered

serverVars == <<users, posts, nextPostId, sessions, nextSid, reqs>>

VARIABLES
    timers,      \* the watcher's pending timers: id -> [left, path], left in ms
    t,           \* debounce's variable t: the id of the timer last set, or null
    runs,        \* the paths runAutopush was started for, in order
    watching,    \* the watcher process is alive
    delivered,   \* the event the watcher emitted last, of any type
    quiet,       \* ms since the last watched event, counted up to wait
    lastPath,    \* the path of the last watched event
    bursts       \* the path of the first event of each burst of watched events

watcherVars == <<timers, t, runs, watching, delivered, quiet, lastPath, bursts>>

VARIABLES
    script,      \* the run of autopush.ps1: its place and its parameters
    origin,      \* the URL of the remote origin, or NoOrigin
    unstaged,    \* the changes of the working tree that are not in the index
    staged,      \* the changes in the index
    commits,     \* the commits made, in order
    branch,      \* the branch HEAD is on
    tracking,    \* the branches that have an upstream
    pushes       \* the pushes made, in order

scriptVars == <<script, origin, unstaged, staged, commits, branch, tracking, pushes>>

vars == <<serverVars, watcherVars, scriptVars>>

\* ----- responses -----
NoResp == [kind |-> "none", to |-> "", error |-> "", clearCookie |-> FALSE]
Redirect(to) == [kind |-> "redirect", to |-> to, error |-> "", clearCookie |-> FALSE]
Render(view, error) == [kind |-> "render", to |-> view, error |-> error, clearCookie |-> FALSE]

\* ----- bcrypt -----
\* bcrypt.hash(password, saltRounds, cb): an error for data that is no string,
\* otherwise a digest of the password at the given cost, under a salt drawn
\* for this call and kept in the digest.
HashFails(password) == password = Missing
Hash(password, cost, salt) == [cost |-> cost, salt |-> salt, pw |-> password]
\* Compare that looks at the digest alone
Compare_Any(password, digest) == digest # NoHash

\* bcrypt.compare(password, digest, cb): result is true exactly when hashing
\* password at the digest's cost and salt gives the digest; missing data is
\* an error and leaves result undefined (falsy).
Compare(password, digest) ==
    /\ password # Missing
    /\ Hash(password, digest.cost, digest.salt) = digest

\* ----- the users table -----
UserIds == 1..Len(users)
FindByUsername(username) ==
    IF \E i \in UserIds : users[i].username = username
    THEN users[CHOOSE i \in UserIds : users[i].username = username]
    ELSE NoRow

\* ----- express-session -----
\* The session middleware loads the session of the request's cookie from the
\* store; a cookie the store does not know gives a fresh, unsaved session.
Known(cookie) == cookie \in DOMAIN sessions
LoadUserId(cookie) == IF Known(cookie) THEN sessions[cookie].userId ELSE NoUser
LoadSid(cookie) == IF Known(cookie) THEN cookie ELSE NoSid
Cookies == 0..(nextSid - 1)
StoreDestroy_Keeps(store, sid) == store
StoreDestroy(store, sid) == [s \in DOMAIN store \ {sid} |-> store[s]]
StoreSet(store, sid, userId) ==
    [s \in DOMAIN store \cup {sid} |-> IF s = sid THEN [userId |-> userId] ELSE store[s]]

\* ----- requireLogin -----
\* requireLogin that asks for a session only, not for its userId
requireLogin_SessionOnly(userId) == userId # Gone

\* if (!req.session || !req.session.userId) redirect, else next()
requireLogin(userId) == userId # NoUser /\ userId # Gone

\* ----- the autopush tools at their start -----
wait == 500          \* the debounce wait, in ms
null == 0            \* no timer
NoOrigin == "<no origin>"
RemoteUrl == "https://github.com/Danjunior92/aussiebyte.git"
Idle == [pc |-> "idle", Message |-> "", RemoteUrl |-> RemoteUrl, ForceRemote |-> FALSE]

\* the watcher started, no event seen yet
WatcherInit ==
    /\ timers = <<>>
    /\ t = null
    /\ runs = <<>>
    /\ watching = TRUE
    /\ delivered = [event |-> "", path |-> ""]
    /\ quiet = wait
    /\ lastPath = ""
    /\ bursts = <<>>

\* a repository on main without a remote, the script not started
ScriptInit ==
    /\ script = Idle
    /\ origin = NoOrigin
    /\ unstaged = 0
    /\ staged = 0
    /\ commits = <<>>
    /\ branch = "main"
    /\ tracking = {}
    /\ pushes = <<>>

Init ==
    /\ users = <<>>
    /\ posts = {}
    /\ nextPostId = 1
    /\ sessions = <<>>
    /\ nextSid = 1
    /\ reqs = EmptyBag
    /\ WatcherInit
    /\ ScriptInit

\* ----- requests -----
NewReq(route, pc) ==
    [pc |-> pc, route |-> route, username |-> "", password |-> "",
     sid |-> NoSid, userId |-> NoUser, hash |-> NoHash, user |-> NoRow,
     id |-> 0, err |-> FALSE, resp |-> NoResp, logged |-> ""]

\* a request the session middleware has loaded the session of
WithSession(q, cookie) ==
    [q EXCEPT !.sid = LoadSid(cookie), !.userId = LoadUserId(cookie)]

\* a request whose last callback has returned: the password and its digest
\* are dropped with the handler's frame
Ended(q) == [q EXCEPT !.pc = "done", !.password = "", !.hash = NoHash]
Finish(q, resp) == [Ended(q) EXCEPT !.resp = resp]
Fail(q, message) == [Ended(q) EXCEPT !.logged = message]

\* the server's requests leave the autopush tools alone
Requests == BagToSet(reqs)
Arrive(q) ==
    /\ BagCardinality(reqs) < MaxReq
    /\ reqs' = reqs (+) SetToBag({q})
    /\ UNCHANGED <<watcherVars, scriptVars>>
Step(q, q2) ==
    /\ BagIn(q, reqs)
    /\ reqs' = (reqs (-) SetToBag({q})) (+) SetToBag({q2})
    /\ UNCHANGED <<watcherVars, scriptVars>>

\* POST /register: the handler up to bcrypt.hash
RegisterStart(username, password) ==
    /\ Arrive([NewReq("register", "hash")
                 EXCEPT !.username = username, !.password = password])
    /\ UNCHANGED <<users, posts, nextPostId, sessions, nextSid>>

\* the callback of bcrypt.hash
Hashed(q, salt) ==
    IF HashFails(q.password)
    THEN Fail(q, "data and salt arguments required")
    ELSE [q EXCEPT !.pc = "insert", !.hash = Hash(q.password, saltRounds, salt)]

RegisterHashed(q, salt) ==
    /\ q.pc = "hash"
    /\ Step(q, Hashed(q, salt))
    /\ UNCHANGED <<users, posts, nextPostId, sessions, nextSid>>

\* InsertUser on a table without the UNIQUE constraint
InsertUser_NotUnique(q, err) ==
    IF err
    THEN /\ users' = users
         /\ Step(q, Fail(q, "SQLITE_ERROR"))
    ELSE /\ users' = Append(users, [id |-> Len(users) + 1,
                                    username |-> q.username,
                                    password |-> q.hash])
         /\ Step(q, Finish(q, Redirect("/login")))

\* InsertUser as INSERT OR REPLACE: the row of a taken username gets the new digest
InsertUser_Replace(q, err) ==
    IF err
    THEN /\ users' = users
         /\ Step(q, Fail(q, "SQLITE_ERROR"))
    ELSE IF FindByUsername(q.username) # NoRow
    THEN /\ users' = [i \in UserIds |->
                        IF users[i].username = q.username
                        THEN [users[i] EXCEPT !.password = q.hash] ELSE users[i]]
         /\ Step(q, Fail(q, "UNIQUE constraint failed"))
    ELSE /\ users' = Append(users, [id |-> Len(users) + 1,
                                    username |-> q.username,
                                    password |-> q.hash])
         /\ Step(q, Finish(q, Redirect("/login")))

\* InsertUser as INSERT OR REPLACE INTO users: the row of a taken username is
\* deleted and a new row with the next id takes the username
InsertUser_OrReplace(q, err) ==
    IF err
    THEN /\ users' = users
         /\ Step(q, Fail(q, "SQLITE_ERROR"))
    ELSE LET Others(row) == row.username # q.username
         IN /\ users' = Append(SelectSeq(users, Others),
                               [id |-> Len(users) + 1,
                                username |-> q.username,
                                password |-> q.hash])
            /\ Step(q, Finish(q, Redirect("/login")))

\* InsertUser that logs the new user in: sets the session's userId to the new
\* row's id and redirects to /
InsertUser_LogsIn(q, err) ==
    IF err
    THEN /\ users' = users
         /\ Step(q, Fail(q, "SQLITE_ERROR"))
    ELSE IF FindByUsername(q.username) # NoRow
    THEN /\ users' = users
         /\ Step(q, Fail(q, "UNIQUE constraint failed"))
    ELSE /\ users' = Append(users, [id |-> Len(users) + 1,
                                    username |-> q.username,
                                    password |-> q.hash])
         /\ Step(q, Finish([q EXCEPT !.userId = Len(users) + 1], Redirect("/")))

\* the INSERT INTO users and its callback; err is a failure of the database
\* itself (the UNIQUE constraint is decided by the table)
InsertUser(q, err) ==
    IF err
    THEN /\ users' = users
         /\ Step(q, Fail(q, "SQLITE_ERROR"))
    ELSE IF FindByUsername(q.username) # NoRow
    THEN /\ users' = users
         /\ Step(q, Fail(q, "UNIQUE constraint failed"))
    ELSE /\ users' = Append(users, [id |-> Len(users) + 1,
                                    username |-> q.username,
                                    password |-> q.hash])
         /\ Step(q, Finish(q, Redirect("/login")))

RegisterInserted(q, err) ==
    /\ q.pc = "insert"
    /\ InsertUser(q, err)
    /\ UNCHANGED <<posts, nextPostId, sessions, nextSid>>

\* POST /login: the handler up to db.get.  The session of a request that
\* brings no stored session is new: it has an id of the middleware's making,
\* which nothing outside the request sees before the session is saved.
NewSessions ==
    BagCardinality([q \in {x \in Requests : x.pc \in {"lookup", "compare"}
                                             /\ x.sid = NoSid} |-> reqs[q]])

LoginStart(cookie, username, password) ==
    /\ Known(cookie) \/ nextSid + NewSessions <= MaxSid
    /\ Arrive([WithSession(NewReq("login", "lookup"), cookie)
                 EXCEPT !.username = username, !.password = password])
    /\ UNCHANGED <<users, posts, nextPostId, sessions, nextSid>>

\* LookedUp that tells the user the username is not known
LookedUp_Distinct(q, err, user) ==
    IF err THEN Fail(q, "SQLITE_ERROR")
    ELSE IF user = NoRow THEN Finish(q, Render("login", "Unknown username"))
    ELSE [q EXCEPT !.pc = "compare", !.user = user]

\* the callback of db.get
LookedUp(q, err, user) ==
    IF err THEN Fail(q, "SQLITE_ERROR")
    ELSE IF user = NoRow THEN Finish(q, Render("login", InvalidMsg))
    ELSE [q EXCEPT !.pc = "compare", !.user = user]

LoginLookedUp(q, err) ==
    /\ q.pc = "lookup"
    /\ Step(q, LookedUp(q, err, FindByUsername(q.username)))
    /\ UNCHANGED <<users, posts, nextPostId, sessions, nextSid>>

\* Compared that sets the userId before it looks at the result
Compared_Always(q, result) ==
    IF result
    THEN Finish([q EXCEPT !.userId = q.user.id], Redirect("/"))
    ELSE Finish([q EXCEPT !.userId = q.user.id], Render("login", InvalidMsg))

\* Compared that takes the userId off the session when the result is false
Compared_Resets(q, result) ==
    IF result
    THEN Finish([q EXCEPT !.userId = q.user.id], Redirect("/"))
    ELSE Finish([q EXCEPT !.userId = NoUser], Render("login", InvalidMsg))

\* the callback of bcrypt.compare
Compared(q, result) ==
    IF result
    THEN Finish([q EXCEPT !.userId = q.user.id], Redirect("/"))
    ELSE Finish(q, Render("login", InvalidMsg))

\* What the session middleware does when the response ends: a session that
\* differs from the one loaded is written to the store under its id
\* (resave: false, saveUninitialized: false), any other is only touched.
Modified(q, q2) == q2.userId # q.userId
SessionId(q) == IF q.sid = NoSid THEN nextSid ELSE q.sid
SaveSession(q, q2) ==
    IF Modified(q, q2)
    THEN /\ sessions' = StoreSet(sessions, SessionId(q), q2.userId)
         /\ nextSid' = IF q.sid = NoSid THEN nextSid + 1 ELSE nextSid
         /\ Step(q, [q2 EXCEPT !.sid = SessionId(q)])
    ELSE /\ UNCHANGED <<sessions, nextSid>>
         /\ Step(q, q2)

LoginCompared(q) ==
    /\ q.pc = "compare"
    /\ SaveSession(q, Compared(q, Compare(q.password, q.user.password)))
    /\ UNCHANGED <<users, posts, nextPostId>>

\* GET /logout: req.session.destroy deletes req.session and asks the store to
\* drop the session; err is the store failing to
LogoutStart(cookie, err) ==
    /\ Arrive([WithSession(NewReq("logout", "destroy"), cookie)
                 EXCEPT !.userId = Gone, !.err = err])
    /\ sessions' = IF err THEN sessions ELSE StoreDestroy(sessions, LoadSid(cookie))
    /\ UNCHANGED <<users, posts, nextPostId, nextSid>>

\* Destroyed without res.clearCookie
Destroyed_KeepsCookie(q) ==
    IF q.err THEN Finish(q, Redirect("/"))
    ELSE Finish(q, Redirect("/login"))

\* the callback of req.session.destroy
Destroyed(q) ==
    IF q.err THEN Finish(q, Redirect("/"))
    ELSE Finish(q, [Redirect("/login") EXCEPT !.clearCookie = TRUE])

\* With req.session deleted, the middleware asks the store once more to drop
\* the session when the response ends; after a failure it may fail again.
LogoutDestroyed(q, again) ==
    /\ q.pc = "destroy"
    /\ Step(q, Destroyed(q))
    /\ sessions' = IF q.err /\ again THEN sessions
                   ELSE StoreDestroy(sessions, q.sid)
    /\ UNCHANGED <<users, posts, nextPostId, nextSid>>

\* GET /new-post: requireLogin, then the form
GetNewPost(cookie) ==
    /\ Arrive(Finish(WithSession(NewReq("get-new-post", "guard"), cookie),
                     IF requireLogin(LoadUserId(cookie))
                     THEN Render("new-post", "") ELSE Redirect("/login")))
    /\ UNCHANGED <<users, posts, nextPostId, sessions, nextSid>>

InFlight(pc) == BagCardinality([q \in {x \in Requests : x.pc = pc} |-> reqs[q]])

\* POST /new-post: the handler up to db.run
NewPostStart(cookie) ==
    /\ nextPostId + InFlight("new-post-run") <= MaxPost
    /\ Arrive(WithSession(NewReq("new-post", "new-post-run"), cookie))
    /\ UNCHANGED <<users, posts, nextPostId, sessions, nextSid>>

\* the INSERT INTO posts and its callback
NewPostRan(q, err) ==
    /\ q.pc = "new-post-run"
    /\ IF err
       THEN /\ Step(q, Fail(q, "SQLITE_ERROR"))
            /\ UNCHANGED <<posts, nextPostId>>
       ELSE /\ Step(q, Finish(q, Redirect("/")))
            /\ posts' = posts \cup {nextPostId}
            /\ nextPostId' = nextPostId + 1
    /\ UNCHANGED <<users, sessions, nextSid>>

\* POST /post/delete/:id: requireLogin, then the handler up to db.run
DeleteStart(cookie, id) ==
    /\ Arrive(IF requireLogin(LoadUserId(cookie))
              THEN [WithSession(NewReq("delete", "delete-run"), cookie) EXCEPT !.id = id]
              ELSE Finish(WithSession(NewReq("delete", "guard"), cookie),
                          Redirect("/login")))
    /\ UNCHANGED <<users, posts, nextPostId, sessions, nextSid>>

\* the DELETE FROM posts and its callback
DeleteRan(q, err) ==
    /\ q.pc = "delete-run"
    /\ IF err
       THEN /\ Step(q, Fail(q, "SQLITE_ERROR"))
            /\ posts' = posts
       ELSE /\ Step(q, Finish(q, Redirect("/")))
            /\ posts' = posts \ {q.id}
    /\ UNCHANGED <<users, nextPostId, sessions, nextSid>>

\* the connection of an ended request closes
Close(q) ==
    /\ q.pc = "done"
    /\ BagIn(q, reqs)
    /\ reqs' = reqs (-) SetToBag({q})
    /\ UNCHANGED <<users, posts, nextPostId, sessions, nextSid>>
    /\ UNCHANGED <<watcherVars, scriptVars>>

Next ==
    \/ \E u \in Usernames, p \in Passwords : RegisterStart(u, p)
    \/ \E q \in Requests, s \in Salts : RegisterHashed(q, s)
    \/ \E q \in Requests, err \in BOOLEAN : RegisterInserted(q, err)
    \/ \E c \in Cookies, u \in Usernames, p \in Passwords : LoginStart(c, u, p)
    \/ \E q \in Requests, err \in BOOLEAN : LoginLookedUp(q, err)
    \/ \E q \in Requests : LoginCompared(q)
    \/ \E c \in Cookies, err \in BOOLEAN : LogoutStart(c, err)
    \/ \E q \in Requests, again \in BOOLEAN : LogoutDestroyed(q, again)
    \/ \E c \in Cookies : GetNewPost(c)
    \/ \E c \in Cookies : NewPostStart(c)
    \/ \E q \in Requests, err \in BOOLEAN : NewPostRan(q, err)
    \/ \E c \in Cookies, id \in 1..MaxPost : DeleteStart(c, id)
    \/ \E q \in Requests, err \in BOOLEAN : DeleteRan(q, err)
    \/ \E q \in Requests : Close(q)

Spec == Init /\ [][Next]_vars

\* Registration alone: MaxReq POST /register requests, in any interleaving,
\* every one of them kept in reqs to the end.
NextRegister ==
    \/ \E u \in Usernames, p \in Passwords : RegisterStart(u, p)
    \/ \E q \in Requests, s \in Salts : RegisterHashed(q, s)
    \/ \E q \in Requests, err \in BOOLEAN : RegisterInserted(q, err)
SpecRegister == Init /\ [][NextRegister]_vars

\* The session routes, with registrations of the one username "alice" whose
\* digests all get the salt 1.
NextSession ==
    \/ \E p \in Passwords \ {Missing} : RegisterStart("alice", p)
    \/ \E q \in Requests : RegisterHashed(q, 1)
    \/ \E q \in Requests, err \in BOOLEAN : RegisterInserted(q, err)
    \/ \E c \in Cookies, u \in Usernames, p \in Passwords : LoginStart(c, u, p)
    \/ \E q \in Requests, err \in BOOLEAN : LoginLookedUp(q, err)
    \/ \E q \in Requests : LoginCompared(q)
    \/ \E c \in Cookies, err \in BOOLEAN : LogoutStart(c, err)
    \/ \E q \in Requests, again \in BOOLEAN : LogoutDestroyed(q, again)
    \/ \E c \in Cookies : GetNewPost(c)
    \/ \E q \in Requests : Close(q)
SpecSession == Init /\ [][NextSession]_vars

\* The accounts of two usernames: registrations with the one password and
\* the salt 1, logins of "alice" with that password, logouts the store does
\* not fail, and new posts.
NextAccounts ==
    \/ \E u \in Usernames : RegisterStart(u, "secret123")
    \/ \E q \in Requests : RegisterHashed(q, 1)
    \/ \E q \in Requests, err \in BOOLEAN : RegisterInserted(q, err)
    \/ \E c \in Cookies : LoginStart(c, "alice", "secret123")
    \/ \E q \in Requests, err \in BOOLEAN : LoginLookedUp(q, err)
    \/ \E q \in Requests : LoginCompared(q)
    \/ \E c \in Cookies : LogoutStart(c, FALSE)
    \/ \E q \in Requests : LogoutDestroyed(q, FALSE)
    \/ \E c \in Cookies : NewPostStart(c)
    \/ \E q \in Requests, err \in BOOLEAN : NewPostRan(q, err)
    \/ \E q \in Requests : Close(q)
SpecAccounts == Init /\ [][NextAccounts]_vars

\* ----- autopush-watcher.js -----
MaxBursts == 2       \* bursts of watched events
Paths == {"index.js", "views/home.ejs"}
WatchedEvents == {"add", "change", "unlink", "addDir", "unlinkDir"}
Events == WatchedEvents \cup {"ready"}
Gaps == {100, 250}   \* the ms that pass at a time

Min(S) == CHOOSE x \in S : \A y \in S : x <= y
Due == \E i \in DOMAIN timers : timers[i].left = 0

\* clearTimeout that leaves the timer pending
clearTimeout_Keeps(ts, id) == ts

\* clearTimeout(t): a pending timer is dropped, any other id is ignored
clearTimeout(ts, id) == [i \in DOMAIN ts \ {id} |-> ts[i]]

\* setTimeout(() => fn.apply(this, a), wait): a new timer under a fresh id
NewId(ts) == Min({i \in 1..(Cardinality(DOMAIN ts) + 1) : i \notin DOMAIN ts})
setTimeout(ts, path, ms) ==
    [i \in DOMAIN ts \cup {NewId(ts)} |->
        IF i = NewId(ts) THEN [left |-> ms, path |-> path] ELSE ts[i]]

\* the function debounce returns
debounce(ts, id, path) == setTimeout(clearTimeout(ts, id), path, wait)

\* the handler's test of the event type, answering for any type
Includes_Any(event) == TRUE

\* ['add', 'change', 'unlink', 'addDir', 'unlinkDir'].includes(event)
Includes(event) == event \in WatchedEvents

\* watcher.on('all', ...): an event reaches the handler.  The event loop
\* runs a timer that is due before it delivers a later event.
OnAll(event, changedPath) ==
    /\ watching /\ ~Due
    /\ (event \in WatchedEvents /\ quiet = wait) => Len(bursts) < MaxBursts
    /\ delivered' = [event |-> event, path |-> changedPath]
    /\ IF Includes(event)
       THEN /\ timers' = debounce(timers, t, changedPath)
            /\ t' = NewId(clearTimeout(timers, t))
       ELSE UNCHANGED <<timers, t>>
    /\ IF event \in WatchedEvents
       THEN /\ quiet' = 0
            /\ lastPath' = changedPath
            /\ bursts' = IF quiet = wait THEN Append(bursts, changedPath) ELSE bursts
       ELSE UNCHANGED <<quiet, lastPath, bursts>>
    /\ UNCHANGED <<runs, watching, serverVars, scriptVars>>

\* the timer's callback: the message is made of the path, runAutopush(msg)
\* starts the script
Timeout(id) ==
    /\ watching
    /\ id \in DOMAIN timers /\ timers[id].left = 0
    /\ timers' = [i \in DOMAIN timers \ {id} |-> timers[i]]
    /\ runs' = Append(runs, timers[id].path)
    /\ UNCHANGED <<t, watching, delivered, quiet, lastPath, bursts>>
    /\ UNCHANGED <<serverVars, scriptVars>>

\* time passes, by gap ms or up to the next timer's coming due
Tick(gap) ==
    /\ watching /\ ~Due
    /\ LET passed == Min({gap} \cup {timers[i].left : i \in DOMAIN timers})
       IN /\ timers' = [i \in DOMAIN timers |->
                           [timers[i] EXCEPT !.left = @ - passed]]
          /\ quiet' = Min({quiet + passed, wait})
    /\ UNCHANGED <<t, runs, watching, delivered, lastPath, bursts>>
    /\ UNCHANGED <<serverVars, scriptVars>>

\* SIGINT: the watcher is closed and the process exits with its timers
Sigint ==
    /\ watching
    /\ watching' = FALSE
    /\ timers' = <<>>
    /\ UNCHANGED <<t, runs, delivered, quiet, lastPath, bursts>>
    /\ UNCHANGED <<serverVars, scriptVars>>

NextWatcher ==
    \/ \E e \in Events, p \in Paths : OnAll(e, p)
    \/ \E id \in DOMAIN timers : Timeout(id)
    \/ \E gap \in Gaps : Tick(gap)
    \/ Sigint
SpecWatcher == Init /\ [][NextWatcher]_vars

\* ----- autopush.ps1 -----
MaxEdit == 1         \* changes made to the working tree
MaxPush == 2         \* pushes made
Urls == {RemoteUrl, "https://github.com/someone/fork.git"}
Messages == {"", "fix typo"}       \* "" is -Message not given
Branches == {"main", "dev"}
DefaultMsg == "Auto-update: <date>"

\* EnsureOrigin that sets origin to RemoteUrl whatever it finds
EnsureOrigin_Overwrites(currentOrigin, url, force) == url

\* the origin the remote check leaves: added when there is none, replaced
\* when it differs and -ForceRemote is given, left alone otherwise
EnsureOrigin(currentOrigin, url, force) ==
    IF currentOrigin = NoOrigin THEN url
    ELSE IF currentOrigin # url
    THEN (IF force THEN url ELSE currentOrigin)
    ELSE currentOrigin

\* the script is started (by runAutopush or by hand); git tells whether
\* Get-Command finds git
Start(message, url, force, git) ==
    /\ script.pc \in {"idle", "done", "exit 1"}
    /\ Len(pushes) < MaxPush
    /\ script' = [pc |-> IF git THEN "remote" ELSE "exit 1",
                  Message |-> message, RemoteUrl |-> url, ForceRemote |-> force]
    /\ UNCHANGED <<origin, unstaged, staged, commits, branch, tracking, pushes>>
    /\ UNCHANGED <<serverVars, watcherVars>>

\* the origin remote check
Remote ==
    /\ script.pc = "remote"
    /\ origin' = EnsureOrigin(origin, script.RemoteUrl, script.ForceRemote)
    /\ script' = [script EXCEPT !.pc = "stage"]
    /\ UNCHANGED <<unstaged, staged, commits, branch, tracking, pushes>>
    /\ UNCHANGED <<serverVars, watcherVars>>

\* git add -A
Stage ==
    /\ script.pc = "stage"
    /\ staged' = staged + unstaged
    /\ unstaged' = 0
    /\ script' = [script EXCEPT !.pc = "commit"]
    /\ UNCHANGED <<origin, commits, branch, tracking, pushes>>
    /\ UNCHANGED <<serverVars, watcherVars>>

\* the test of $changes turned round: commit also when nothing is staged
HasChanges_Always(changes) == TRUE

\* -not $changes, negated: git diff --cached --name-only printed a name
HasChanges(changes) == changes > 0

\* $changes, and git commit -m unless it is empty
Commit ==
    /\ script.pc = "commit"
    /\ IF HasChanges(staged)
       THEN /\ commits' = Append(commits,
                    [message |-> IF script.Message = "" THEN DefaultMsg
                                 ELSE script.Message,
                     changes |-> staged])
            /\ staged' = 0
       ELSE UNCHANGED <<commits, staged>>
    /\ script' = [script EXCEPT !.pc = "push"]
    /\ UNCHANGED <<origin, unstaged, branch, tracking, pushes>>
    /\ UNCHANGED <<serverVars, watcherVars>>

\* $branch, the upstream test and git push; head is what git rev-parse
\* --abbrev-ref HEAD prints, "" when it prints nothing
Push(head) ==
    /\ script.pc = "push"
    /\ LET b == IF head = "" THEN "main" ELSE head
           hasUpstream == head # "" /\ head \in tracking
       IN /\ pushes' = Append(pushes, [branch |-> b, setUpstream |-> ~hasUpstream])
          /\ tracking' = IF hasUpstream THEN tracking ELSE tracking \cup {b}
    /\ script' = [script EXCEPT !.pc = "done"]
    /\ UNCHANGED <<origin, unstaged, staged, commits, branch>>
    /\ UNCHANGED <<serverVars, watcherVars>>

\* the user changes a file of the working tree
Edit ==
    /\ unstaged + staged + Len(commits) < MaxEdit
    /\ unstaged' = unstaged + 1
    /\ UNCHANGED <<script, origin, staged, commits, branch, tracking, pushes>>
    /\ UNCHANGED <<serverVars, watcherVars>>

\* the user points origin somewhere
UserRemote(url) ==
    /\ origin' = url
    /\ UNCHANGED <<script, unstaged, staged, commits, branch, tracking, pushes>>
    /\ UNCHANGED <<serverVars, watcherVars>>

\* the user switches the branch
Checkout(b) ==
    /\ branch' = b
    /\ UNCHANGED <<script, origin, unstaged, staged, commits, tracking, pushes>>
    /\ UNCHANGED <<serverVars, watcherVars>>

NextAutopush ==
    \/ \E m \in Messages, url \in Urls, force \in BOOLEAN, git \in BOOLEAN :
          Start(m, url, force, git)
    \/ Remote
    \/ Stage
    \/ Commit
    \/ \E head \in {branch, ""} : Push(head)
    \/ Edit
    \/ \E url \in Urls : UserRemote(url)
    \/ \E b \in Branches : Checkout(b)
SpecAutopush == Init /\ [][NextAutopush]_vars

\* ----- properties -----
Done(route) == {q \in Requests : q.pc = "done" /\ q.route = route}
Count(S) == BagCardinality([q \in S |-> reqs[q]])
Success == Redirect("/login")
DuplicateMsg == "UNIQUE constraint failed"

\* the registrations of username that got as far as the INSERT and met no
\* failure of the database itself
Inserted(username) ==
    {q \in Done("register") :
        q.username = username /\ (q.resp = Success \/ q.logged = DuplicateMsg)}
Winners(username) == {q \in Inserted(username) : q.resp = Success}
Rows(username) == {i \in UserIds : users[i].username = username}

\* C1: of the concurrent POST /register requests for one username (under
\* SpecRegister reqs holds every request made), exactly one inserts the user
\* row and is redirected to /login; every other one ends with the
\* duplicate-username failure of the table; no two succeed.
C1_ExactlyOneRegistration ==
    \A u \in Usernames :
        Inserted(u) # {} =>
            /\ Count(Winners(u)) = 1
            /\ Cardinality(Rows(u)) = 1
            /\ \A q \in Inserted(u) \ Winners(u) : q.logged = DuplicateMsg

C1_Witness ==
    \E u \in Usernames :
        /\ Count(Winners(u)) = 1
        /\ Count(Inserted(u) \ Winners(u)) >= 1

\* C2: no two users share a username, and a POST /register for a username
\* that exists leaves the table as it is: the row keeps its id and digest, so
\* the passwords that logged in before still do and no other does.
C2_DuplicateKeepsRow ==
    [][/\ \A i, j \in 1..Len(users') :
             users'[i].username = users'[j].username => i = j
       /\ \A q \in Requests :
             (q.pc = "insert" /\ Rows(q.username) # {} /\ ~BagIn(q, reqs')) =>
                 /\ users' = users
                 /\ \A p \in Passwords :
                       Compare(p, FindByUsername(q.username)'.password)
                           = Compare(p, FindByUsername(q.username).password)]_vars

C2_Witness ==
    \E q \in Done("register") :
        /\ q.logged = DuplicateMsg
        /\ Rows(q.username) # {}
        /\ \E p \in Passwords : Compare(p, FindByUsername(q.username).password)

\* C8: POST /register with an empty username or an empty password is
\* rejected before the table is touched: no row has an empty username or the
\* digest of the empty password, and no such request is redirected to /login.
C8_EmptyRejected ==
    /\ \A i \in UserIds :
          users[i].username # "" /\ ~Compare("", users[i].password)
    /\ \A q \in Done("register") : q.username = "" => q.resp # Success

\* C9: a request whose last callback has returned has been answered, also
\* when the hash, the insert, the lookup or the comparison failed.
C9_AlwaysAnswered ==
    \A q \in Requests : q.pc = "done" => q.resp # NoResp

\* C3: a POST /new-post or POST /post/delete/:id request whose session has no
\* userId is answered with the redirect to /login (and so never reaches the
\* posts table).
C3_PostsNeedLogin ==
    \A q \in Done("new-post") \cup Done("delete") :
        (q.userId = NoUser /\ q.resp # NoResp) => q.resp = Redirect("/login")

\* ----- the session routes -----
Ends(q, q2) == q.pc # "done" /\ q2.pc = "done" /\ q2.route = q.route /\ Step(q, q2)
After == BagToSet(reqs')
Digests(password) == {Hash(password, saltRounds, s) : s \in Salts}
Registered(username, password) ==
    /\ FindByUsername(username) # NoRow
    /\ FindByUsername(username).password \in Digests(password)
Denied == Render("login", InvalidMsg)
UnknownUser(q) == q.user = NoRow /\ q.logged = ""
WrongPassword(q) == q.user # NoRow /\ q.resp # Redirect("/")

\* C4: a POST /login for a username that does not exist and one for an
\* existing username with a wrong password are answered alike: the same
\* view with the same error string, and neither touches the session.
C4_SameDenial ==
    [][/\ \A q1, q2 \in Done("login")' :
             (UnknownUser(q1) /\ WrongPassword(q2)) => q1.resp = q2.resp
       /\ \A q \in Requests, q2 \in After :
             (/\ q.route = "login" /\ q2.logged = ""
              /\ ~Registered(q.username, q.password) /\ Ends(q, q2)) =>
                 /\ q2.resp = Denied
                 /\ q2.userId = q.userId /\ q2.sid = q.sid
                 /\ sessions' = sessions]_vars

C4_Witness ==
    \E q1, q2 \in Done("login") : UnknownUser(q1) /\ WrongPassword(q2)

\* C5: a session gets a userId only from a POST /login on that session that
\* gave the username of that user and the password the user registered with;
\* no other step changes the userId of a stored session or of a request.
LoginOf(q, q2, userId) ==
    /\ q.route = "login" /\ q.pc = "compare"
    /\ userId \in UserIds
    /\ users[userId].username = q.username
    /\ users[userId].password \in Digests(q.password)
    /\ Ends(q, q2)

C5_UserIdOnlyByLogin ==
    [][/\ \A s \in DOMAIN sessions' :
             (s \notin DOMAIN sessions \/ sessions'[s] # sessions[s]) =>
                 \E q \in Requests, q2 \in After :
                     /\ LoginOf(q, q2, sessions'[s].userId)
                     /\ SessionId(q) = s /\ q2.sid = s
       /\ \A q \in Requests, q2 \in After :
             (q2.userId # q.userId /\ q2.route = q.route /\ Step(q, q2)) =>
                 LoginOf(q, q2, q2.userId)]_vars

C5_Witness ==
    \E s \in DOMAIN sessions, q \in Done("login") :
        q.sid = s /\ sessions[s].userId = q.userId /\ q.userId \in UserIds

\* C6: when GET /logout has completed on a session, the store no longer
\* holds it; it comes back only by a POST /login that succeeds; a request
\* bringing a session id the store does not hold is turned away by
\* requireLogin; and GET /logout on a session already gone completes as any
\* other.
LoggedOut == [Redirect("/login") EXCEPT !.clearCookie = TRUE]

C7_LogoutAlwaysToLogin ==
    \A q \in Done("logout") : q.resp = LoggedOut

\* C7 as amended: GET /logout ends by clearing the session cookie and
\* redirecting to /login when destroy reports no error (the session being
\* already gone is no error); when destroy reports an error it redirects to /
\* and leaves the cookie.
C7_LogoutUnlessError ==
    \A q \in Done("logout") :
        q.resp = (IF q.err THEN Redirect("/") ELSE LoggedOut)

C7_Witness ==
    /\ \E q \in Done("logout") : ~q.err /\ q.sid = NoSid
    /\ \E q \in Done("logout") : q.err

\* C10: once (u, p) is registered, POST /login(u, p) sets the session's
\* userId to the id of u, redirects to / and stores the session, and
\* requireLogin lets the requests of a stored session with a userId pass;
\* POST /login(u, p') with another password p' renders the
\* invalid-credentials error and leaves the session as it was.  (A lookup the
\* database fails is neither.)
C10_RoundTrip ==
    [][/\ \A q \in Requests, q2 \in After :
             (/\ q.pc = "insert" /\ q2.resp = Success /\ Ends(q, q2)) =>
                 Registered(q.username, q.password)'
       /\ \A q \in Requests, q2 \in After :
             (/\ q.route = "login" /\ q2.logged = ""
              /\ Registered(q.username, q.password) /\ Ends(q, q2)) =>
                 /\ q2.resp = Redirect("/")
                 /\ q2.userId = FindByUsername(q.username).id
                 /\ (q.userId # q2.userId \/ Known(q.sid)) =>
                       /\ Known(q2.sid)'
                       /\ sessions'[q2.sid].userId = q2.userId
       /\ \A q \in Requests, q2 \in After, p \in Passwords :
             (/\ q.route = "login" /\ q2.logged = "" /\ p # q.password
              /\ Registered(q.username, p) /\ Ends(q, q2)) =>
                 /\ q2.resp = Denied
                 /\ q2.userId = q.userId
                 /\ sessions' = sessions
       /\ \A c \in Cookies :
             (Known(c) /\ sessions[c].userId \in UserIds /\ GetNewPost(c)) =>
                 \E q2 \in After :
                     /\ ~BagIn(q2, reqs) \/ CopiesIn(q2, reqs') > CopiesIn(q2, reqs)
                     /\ q2.sid = c
                     /\ q2.resp = Render("new-post", "")]_vars

C10_Witness ==
    \E q \in Done("login"), g \in Done("get-new-post") :
        /\ q.resp = Redirect("/") /\ q.userId \in UserIds
        /\ users[q.userId].username # ""
        /\ ~Compare("", users[q.userId].password)
        /\ g.sid = q.sid /\ g.resp = Render("new-post", "")

\* C11: requireLogin lets the guarded handler run exactly when the request's
\* session exists and carries a userId: GET /new-post renders the form for
\* such a request and for no other; every other one is redirected to /login
\* and the form is not rendered.
Form == Render("new-post", "")
Authenticated(q) == q.sid # NoSid /\ q.userId \in UserIds

C11_GuardIffUserId ==
    \A q \in Done("get-new-post") :
        /\ q.resp \in {Form, Redirect("/login")}
        /\ q.resp = Form <=> Authenticated(q)
        /\ q.resp = Redirect("/login") <=> (q.userId = NoUser)

C11_Witness ==
    /\ \E q \in Done("get-new-post") : Authenticated(q) /\ q.resp = Form
    /\ \E q \in Done("get-new-post") :
          q.userId = NoUser /\ q.resp = Redirect("/login")

\* ----- the accounts -----
\* C12: a POST /register that inserts its row does not log in: it is
\* redirected to /login, and the session store, the next session id and the
\* session of the request itself (its id and userId) are as they were; the
\* sessions that were logged in stay logged in as the user they had.
C12_RegisterNoLogin ==
    [][\A q \in Requests, q2 \in After :
          (q.pc = "insert" /\ users' # users /\ Step(q, q2)) =>
              /\ q2.resp = Redirect("/login")
              /\ q2.userId = q.userId /\ q2.sid = q.sid
              /\ sessions' = sessions /\ nextSid' = nextSid
              /\ \A s \in DOMAIN sessions' :
                    sessions'[s].userId # Len(users')]_vars

C12_Witness ==
    \E q \in Done("register"), s \in DOMAIN sessions :
        /\ q.resp = Success /\ q.username = ""
        /\ FindByUsername("").id = 2
        /\ sessions[s].userId = 1

\* C13: the users table only grows: in every step of every request every
\* row there is stays where it is with its id, username and digest, a row's
\* id is its place in the table, and no row goes away.
C13_UsersAppendOnly ==
    [][/\ Len(users') >= Len(users)
       /\ \A i \in UserIds :
             /\ users'[i].id = users[i].id
             /\ users'[i].username = users[i].username
             /\ users'[i].password = users[i].password
       /\ \A i \in 1..Len(users') : users'[i].id = i]_vars

C13_Witness ==
    /\ Len(users) = 2
    /\ posts # {}
    /\ nextSid > 1 /\ DOMAIN sessions = {}
    /\ \E q \in Done("register") : q.logged = DuplicateMsg

\* C14: a destroyed session never becomes authenticated again: once the
\* store has dropped a session id and every GET /logout has completed, no
\* step (no callback of a POST /login still in flight on that session) puts
\* the id back into the store.
LogoutsCompleted == \A r \in Requests : r.route = "logout" => r.pc = "done"
Issued == 1..(nextSid - 1)

C14_DestroyedStaysDestroyed ==
    [][\A s \in Issued :
          (~Known(s) /\ LogoutsCompleted) => ~Known(s)']_vars

\* C15: a POST /login that fails (the username is not known, the password is
\* wrong, the comparison or the lookup reports an error) leaves the userId of
\* the request's session as it was: a session that was logged in is still
\* logged in as the same user, one that was not is still not, and nothing is
\* written to the store.
FailedLogin(q, q2) ==
    /\ q.route = "login" /\ q2.resp # Redirect("/") /\ Ends(q, q2)

C15_FailedLoginKeepsUserId ==
    [][\A q \in Requests, q2 \in After :
          FailedLogin(q, q2) =>
              /\ q2.userId = q.userId /\ q2.sid = q.sid
              /\ nextSid' = nextSid
              /\ LoadUserId(q.sid)' = LoadUserId(q.sid)
              /\ requireLogin(q2.userId) = requireLogin(q.userId)]_vars

C15_Witness ==
    \E q1, q2 \in Done("login") :
        /\ UnknownUser(q1) /\ q1.resp = Denied
        /\ WrongPassword(q2) /\ q2.resp = Denied
        /\ q1.userId \in UserIds /\ q2.userId \in UserIds
        /\ Known(q1.sid) /\ sessions[q1.sid].userId = q1.userId

\* ----- the watcher -----
\* C16: the watcher is debounced.  A run of autopush starts only when wait
\* ms have passed since the last watched event, and with the path of that
\* event; while the watcher lives, every burst of watched events has either
\* had its one run or has exactly one timer pending, set to come due wait ms
\* after the burst's last event with that event's path; and an event of any
\* other type changes neither the timers nor the runs.
Pending == DOMAIN timers # {}

C16_Debounced ==
    [][/\ runs' # runs =>
             /\ quiet = wait
             /\ runs' = Append(runs, lastPath)
       /\ (delivered' # delivered /\ delivered'.event \notin WatchedEvents) =>
             UNCHANGED <<timers, t, runs>>
       /\ watching' =>
             IF Pending'
             THEN /\ Len(runs') = Len(bursts') - 1
                  /\ DOMAIN timers' = {t'}
                  /\ timers'[t'] = [left |-> wait - quiet', path |-> lastPath']
             ELSE /\ Len(runs') = Len(bursts')
                  /\ quiet' = wait]_vars

C16_Witness ==
    /\ Len(runs) = 2 /\ Len(bursts) = 2
    /\ runs[1] # bursts[1]
    /\ runs[2] # runs[1]
    /\ delivered.event = "ready"
    /\ watching /\ ~Pending

\* ----- the script -----
ScriptStep == script' # script

\* C17: the script changes origin only in its remote check, and there only
\* when there is no origin or -ForceRemote is given, and then to RemoteUrl;
\* with an origin of another URL and no -ForceRemote the URL stays and the
\* script goes on: it stages, then commits or skips, then pushes.
C17_OriginKeptUnlessForced ==
    [][ScriptStep =>
          /\ origin' # origin =>
                /\ script.pc = "remote"
                /\ origin = NoOrigin \/ script.ForceRemote
                /\ origin' = script.RemoteUrl
          /\ (/\ script.pc = "remote" /\ ~script.ForceRemote
              /\ origin \notin {NoOrigin, script.RemoteUrl}) =>
                origin' = origin /\ script'.pc = "stage"
          /\ script.pc = "stage" =>
                script'.pc = "commit" /\ staged' = staged + unstaged
          /\ script.pc = "commit" => script'.pc = "push"
          /\ script.pc = "push" =>
                script'.pc = "done" /\ Len(pushes') = Len(pushes) + 1]_vars

C17_Witness ==
    /\ script.pc = "done" /\ ~script.ForceRemote
    /\ origin \notin {NoOrigin, script.RemoteUrl}
    /\ Len(commits) = 1 /\ Len(pushes) = 1

====
